---------------------------- MODULE Spec2Model ----------------------------
(***************************************************************************)
(* The ParaVision/JCAMP-DX parameter parser of src/src/lib.rs as a state   *)
(* machine: parse_paravision_params reads one line per step and threads    *)
(* the Option<Pending> continuation state through the loop.                *)
(*                                                                         *)
(* Text is a sequence of one-character strings, so that trim, split_once,  *)
(* split_whitespace, the prefix tests and the integer grammar are computed *)
(* character by character as the Rust code computes them.  A usize or i64  *)
(* value is eight base-256 limbs, least significant first (two's           *)
(* complement for i64), so the 64-bit width of the arithmetic is kept.     *)
(***************************************************************************)
EXTENDS Integers, Sequences, FiniteSets, TLC

(***************************************************************************)
(* Text helpers (str methods of the Rust standard library)                 *)
(***************************************************************************)

\* char::is_whitespace, restricted to the characters the inputs use
WhiteSpace == {" ", "\t", "\n", "\r"}

LowerChars == <<"a","b","c","d","e","f","g","h","i","j","k","l","m",
                "n","o","p","q","r","s","t","u","v","w","x","y","z">>

UpperChars == <<"A","B","C","D","E","F","G","H","I","J","K","L","M",
                "N","O","P","Q","R","S","T","U","V","W","X","Y","Z">>

DigitChars == <<"0","1","2","3","4","5","6","7","8","9">>

IsDigit(c) == \E i \in 1..10 : DigitChars[i] = c

DigitVal(c) == (CHOOSE i \in 1..10 : DigitChars[i] = c) - 1

UpperChar(c) ==
  IF \E i \in 1..26 : LowerChars[i] = c
  THEN UpperChars[CHOOSE i \in 1..26 : LowerChars[i] = c]
  ELSE c

LowerChar(c) ==
  IF \E i \in 1..26 : UpperChars[i] = c
  THEN LowerChars[CHOOSE i \in 1..26 : UpperChars[i] = c]
  ELSE c

\* str::to_ascii_uppercase
ToAsciiUppercase(s) == [i \in 1..Len(s) |-> UpperChar(s[i])]

\* str::to_ascii_lowercase
ToAsciiLowercase(s) == [i \in 1..Len(s) |-> LowerChar(s[i])]

\* str::starts_with
StartsWith(s, p) == Len(s) >= Len(p) /\ SubSeq(s, 1, Len(p)) = p

\* str::ends_with
EndsWith(s, p) == Len(s) >= Len(p) /\ SubSeq(s, Len(s) - Len(p) + 1, Len(s)) = p

RECURSIVE TrimStartOf(_, _)
TrimStartOf(s, set) ==
  IF s # <<>> /\ Head(s) \in set THEN TrimStartOf(Tail(s), set) ELSE s

RECURSIVE TrimEndOf(_, _)
TrimEndOf(s, set) ==
  IF s # <<>> /\ s[Len(s)] \in set
  THEN TrimEndOf(SubSeq(s, 1, Len(s) - 1), set)
  ELSE s

\* str::trim_end_matches(&['\r', '\n'][..])
TrimEndMatches(s) == TrimEndOf(s, {"\r", "\n"})

\* str::trim
Trim(s) == TrimEndOf(TrimStartOf(s, WhiteSpace), WhiteSpace)

\* position of the first c in s, 0 when there is none
FindChar(s, c) ==
  IF \E i \in 1..Len(s) : s[i] = c
  THEN CHOOSE i \in 1..Len(s) : s[i] = c /\ \A j \in 1..(i - 1) : s[j] # c
  ELSE 0

\* str::split(c): the pieces between the separators, empty pieces included
RECURSIVE SplitChar(_, _)
SplitChar(s, c) ==
  LET i == FindChar(s, c) IN
  IF i = 0 THEN <<s>>
  ELSE <<SubSeq(s, 1, i - 1)>> \o SplitChar(SubSeq(s, i + 1, Len(s)), c)

\* length of the longest prefix of s without whitespace
RECURSIVE TokenLen(_)
TokenLen(s) ==
  IF s = <<>> \/ Head(s) \in WhiteSpace THEN 0 ELSE 1 + TokenLen(Tail(s))

\* str::split_whitespace: the non-empty maximal runs of non-whitespace
RECURSIVE SplitWhitespace(_)
SplitWhitespace(s) ==
  LET t == TrimStartOf(s, WhiteSpace) IN
  IF t = <<>> THEN <<>>
  ELSE LET n == TokenLen(t) IN
       <<SubSeq(t, 1, n)>> \o SplitWhitespace(SubSeq(t, n + 1, Len(t)))

(***************************************************************************)
(* 64-bit integers: eight base-256 limbs, least significant first          *)
(***************************************************************************)

\* usize and i64 are 64 bits wide: eight bytes
WordBytes == 8

LimbBase == 256

ZeroWord == [i \in 1..WordBytes |-> 0]

\* the word of a small natural number n < 256^3
WordOf(n) ==
  [i \in 1..WordBytes |->
     CASE i = 1 -> n % LimbBase
       [] i = 2 -> (n \div LimbBase) % LimbBase
       [] i = 3 -> (n \div (LimbBase * LimbBase)) % LimbBase
       [] OTHER -> 0]

\* a word's value fits the model's small naturals (below 256^3)
IsSmallWord(w) == \A i \in 4..WordBytes : w[i] = 0

SmallVal(w) == w[1] + LimbBase * w[2] + LimbBase * LimbBase * w[3]

\* w * m + c for small m, c: the low 64 bits and the carry out of them
RECURSIVE MulSmallFrom(_, _, _, _)
MulSmallFrom(w, m, c, i) ==
  IF i > WordBytes THEN [word |-> <<>>, carry |-> c]
  ELSE LET t    == w[i] * m + c
           rest == MulSmallFrom(w, m, t \div LimbBase, i + 1)
       IN  [word |-> <<t % LimbBase>> \o rest.word, carry |-> rest.carry]

MulSmall(w, m, c) == MulSmallFrom(w, m, c, 1)

\* limb k (0-based) of the column sums of a * b
RECURSIVE ColumnSum(_, _, _, _)
ColumnSum(a, b, k, i) ==
  IF i > k THEN 0
  ELSE (IF i < WordBytes /\ k - i < WordBytes THEN a[i + 1] * b[k - i + 1] ELSE 0)
       + ColumnSum(a, b, k, i + 1)

\* the 16 limbs of the full product a * b
RECURSIVE MulFrom(_, _, _, _)
MulFrom(a, b, k, c) ==
  IF k >= 2 * WordBytes THEN <<>>
  ELSE LET t == ColumnSum(a, b, k, 0) + c IN
       <<t % LimbBase>> \o MulFrom(a, b, k + 1, t \div LimbBase)

\* usize multiplication: the wrapped product and whether it overflowed
MulWord(a, b) ==
  LET full == MulFrom(a, b, 0, 0) IN
  [word     |-> SubSeq(full, 1, WordBytes),
   overflow |-> \E i \in (WordBytes + 1)..(2 * WordBytes) : full[i] # 0]

\* two's complement negation (wrapping_neg)
RECURSIVE NegFrom(_, _, _)
NegFrom(w, i, c) ==
  IF i > WordBytes THEN <<>>
  ELSE LET t == (LimbBase - 1 - w[i]) + c IN
       <<t % LimbBase>> \o NegFrom(w, i + 1, t \div LimbBase)

NegWord(w) == NegFrom(w, 1, 1)

\* the sign bit of an i64
IsNegative(w) == w[WordBytes] >= LimbBase \div 2

\* 2^63, the magnitude of i64::MIN
MinMagnitude == [i \in 1..WordBytes |-> IF i = WordBytes THEN LimbBase \div 2 ELSE 0]

(***************************************************************************)
(* Integer parsing (core::num from_str_radix, radix 10)                    *)
(***************************************************************************)

\* the digits of ds as an unsigned 64-bit number; ok is FALSE on a non-digit
\* or when the value does not fit 64 bits
RECURSIVE ParseDigitsFrom(_, _)
ParseDigitsFrom(ds, acc) ==
  IF ds = <<>> THEN [ok |-> TRUE, word |-> acc]
  ELSE IF ~IsDigit(Head(ds)) THEN [ok |-> FALSE, word |-> ZeroWord]
  ELSE LET r == MulSmall(acc, 10, DigitVal(Head(ds))) IN
       IF r.carry # 0 THEN [ok |-> FALSE, word |-> ZeroWord]
       ELSE ParseDigitsFrom(Tail(ds), r.word)

\* str::parse::<usize>: an optional '+', then one or more digits, no overflow
ParseUsize(t) ==
  IF t = <<>> THEN [ok |-> FALSE, word |-> ZeroWord]
  ELSE IF t = <<"+">> \/ t = <<"-">> THEN [ok |-> FALSE, word |-> ZeroWord]
  ELSE IF Head(t) = "+" THEN ParseDigitsFrom(Tail(t), ZeroWord)
  ELSE ParseDigitsFrom(t, ZeroWord)

\* str::parse::<i64>: an optional sign, then digits, within -2^63 .. 2^63-1
ParseI64(t) ==
  IF t = <<>> THEN [ok |-> FALSE, word |-> ZeroWord]
  ELSE IF t = <<"+">> \/ t = <<"-">> THEN [ok |-> FALSE, word |-> ZeroWord]
  ELSE LET neg == Head(t) = "-"
           ds  == IF Head(t) \in {"+", "-"} THEN Tail(t) ELSE t
           m   == ParseDigitsFrom(ds, ZeroWord)
       IN  IF ~m.ok THEN [ok |-> FALSE, word |-> ZeroWord]
           ELSE IF neg
                THEN IF IsNegative(m.word) /\ m.word # MinMagnitude
                     THEN [ok |-> FALSE, word |-> ZeroWord]
                     ELSE [ok |-> TRUE, word |-> NegWord(m.word)]
                ELSE IF IsNegative(m.word)
                     THEN [ok |-> FALSE, word |-> ZeroWord]
                     ELSE [ok |-> TRUE, word |-> m.word]

(***************************************************************************)
(* Float literals (core::num::dec2flt, the grammar of str::parse::<f64>)   *)
(***************************************************************************)

AllDigits(s) == \A i \in 1..Len(s) : IsDigit(s[i])

\* Exp ::= 'e' Sign? Digit+   (x is the text after the 'e')
IsExponent(x) ==
  LET ds == IF x # <<>> /\ Head(x) \in {"+", "-"} THEN Tail(x) ELSE x
  IN  ds # <<>> /\ AllDigits(ds)

\* Digit+ | Digit+ '.' Digit* | Digit* '.' Digit+
IsMantissa(m) ==
  LET parts == SplitChar(m, ".") IN
  \/ Len(parts) = 1 /\ m # <<>> /\ AllDigits(m)
  \/ /\ Len(parts) = 2
     /\ AllDigits(parts[1]) /\ AllDigits(parts[2])
     /\ Len(parts[1]) + Len(parts[2]) >= 1

\* Float ::= Sign? ( 'inf' | 'infinity' | 'nan' | Number ), letters in any case
IsF64(t) ==
  LET u == IF t # <<>> /\ Head(t) \in {"+", "-"} THEN Tail(t) ELSE t
      l == ToAsciiLowercase(u)
      e == FindChar(l, "e")
  IN  \/ l \in {<<"i","n","f">>, <<"i","n","f","i","n","i","t","y">>, <<"n","a","n">>}
      \/ e = 0 /\ IsMantissa(l)
      \/ e > 0 /\ IsMantissa(SubSeq(l, 1, e - 1)) /\ IsExponent(SubSeq(l, e + 1, Len(l)))

(***************************************************************************)
(* The value model: PvAtom, PvValue                                        *)
(***************************************************************************)

BoolAtom(b) == [tag |-> "Bool", b |-> b]

\* Int(i64): the value as a two's complement word
IntAtom(w) == [tag |-> "Int", i |-> w]

\* Float(f64): the value is the one the literal denotes; it is kept as the
\* literal, since no operation of the parser computes with it
FloatAtom(t) == [tag |-> "Float", lit |-> t]

TextAtom(t) == [tag |-> "Text", s |-> t]

Scalar(a) == [tag |-> "Scalar", atom |-> a]

Array(dims, items) == [tag |-> "Array", dims |-> dims, items |-> items]

Str(t) == [tag |-> "Str", s |-> t]

(***************************************************************************)
(* The parsing helpers of lib.rs                                           *)
(***************************************************************************)

Yes == <<"y","e","s">>

True == <<"t","r","u","e">>

No == <<"n","o">>

False == <<"f","a","l","s","e">>

\* parse_atom with the numeric attempts in the other order (f64 before i64)
ParseAtomFloatFirst(tok) ==
  LET t  == Trim(tok)
      tl == ToAsciiLowercase(t)
  IN  IF tl = Yes \/ tl = True THEN BoolAtom(TRUE)
      ELSE IF tl = No \/ tl = False THEN BoolAtom(FALSE)
      ELSE IF IsF64(t) THEN FloatAtom(t)
      ELSE IF ParseI64(t).ok THEN IntAtom(ParseI64(t).word)
      ELSE TextAtom(t)

\* parse_atom
ParseAtom(tok) ==
  LET t  == Trim(tok)
      tl == ToAsciiLowercase(t)
  IN  IF tl = Yes \/ tl = True THEN BoolAtom(TRUE)
      ELSE IF tl = No \/ tl = False THEN BoolAtom(FALSE)
      ELSE LET i == ParseI64(t) IN
           IF i.ok THEN IntAtom(i.word)
           ELSE IF IsF64(t) THEN FloatAtom(t)
           ELSE TextAtom(t)

\* push_atoms_from_line, were no atom pushed
PushNoAtoms(line, out) == out

\* push_atoms_from_line: out followed by the atoms of the line's tokens
PushAtomsFromLine(line, out) ==
  LET toks == SplitWhitespace(line) IN
  out \o [i \in 1..Len(toks) |-> ParseAtom(toks[i])]

\* split_key_value: split once on the first '='
SplitKeyValue(s) ==
  LET i == FindChar(s, "=") IN
  IF i = 0 THEN [k |-> s, v |-> <<>>]
  ELSE [k |-> SubSeq(s, 1, i - 1), v |-> SubSeq(s, i + 1, Len(s))]

\* the sequence s without its empty members, in order
RECURSIVE NonEmpty(_)
NonEmpty(s) ==
  IF s = <<>> THEN <<>>
  ELSE IF Head(s) = <<>> THEN NonEmpty(Tail(s))
  ELSE <<Head(s)>> \o NonEmpty(Tail(s))

\* parse_dims: None, or Some(dims) with dims a non-empty sequence of usize
ParseDims(v0) ==
  LET v == Trim(v0) IN
  IF ~StartsWith(v, <<"(">>) \/ ~EndsWith(v, <<")">>)
  THEN [some |-> FALSE, dims |-> <<>>]
  ELSE LET inner  == SubSeq(v, 2, Len(v) - 1)
           pieces == SplitChar(inner, ",")
           toks   == NonEmpty([i \in 1..Len(pieces) |-> Trim(pieces[i])])
       IN  IF \E i \in 1..Len(toks) : ~ParseUsize(toks[i]).ok
           THEN [some |-> FALSE, dims |-> <<>>]
           ELSE IF toks = <<>> THEN [some |-> FALSE, dims |-> <<>>]
           ELSE [some |-> TRUE,
                 dims |-> [i \in 1..Len(toks) |-> ParseUsize(toks[i]).word]]

\* parse_angle_brackets returning the trimmed line with its brackets
ParseAngleBracketsWhole(s0) ==
  LET s == Trim(s0) IN
  IF ~StartsWith(s, <<"<">>) \/ ~EndsWith(s, <<">">>)
  THEN [some |-> FALSE, txt |-> <<>>]
  ELSE [some |-> TRUE, txt |-> s]

\* parse_angle_brackets: None, or Some(the text between the brackets)
ParseAngleBrackets(s0) ==
  LET s == Trim(s0) IN
  IF ~StartsWith(s, <<"<">>) \/ ~EndsWith(s, <<">">>)
  THEN [some |-> FALSE, txt |-> <<>>]
  ELSE [some |-> TRUE, txt |-> SubSeq(s, 2, Len(s) - 1)]

\* dims.iter().product(): the wrapped product and whether a step overflowed
RECURSIVE ProductFrom(_, _)
ProductFrom(dims, acc) ==
  IF dims = <<>> THEN acc
  ELSE LET m == MulWord(acc.word, Head(dims)) IN
       ProductFrom(Tail(dims),
                   [word |-> m.word, overflow |-> acc.overflow \/ m.overflow])

Product(dims) == ProductFrom(dims, [word |-> WordOf(1), overflow |-> FALSE])

\* items.len() >= need, for a length n and a usize need
LenAtLeast(n, need) == IsSmallWord(need) /\ n >= SmallVal(need)

\* no truncation: the items as they are
TruncateNot(items, need) == items

\* Vec::truncate(need)
Truncate(items, need) ==
  IF LenAtLeast(Len(items), need) THEN SubSeq(items, 1, SmallVal(need)) ELSE items

\* entry(k).or_insert(v): an existing entry is kept
InsertIfAbsent(m, k, v) ==
  [x \in (DOMAIN m) \cup {k} |-> IF x \in DOMAIN m THEN m[x] ELSE v]

\* HashMap::insert: the entry of key k is replaced or created
Insert(m, k, v) == [x \in (DOMAIN m) \cup {k} |-> IF x = k THEN v ELSE m[x]]

(***************************************************************************)
(* Input lines                                                             *)
(***************************************************************************)

\* the most lines one run reads
MaxLines == 4

KeyA == <<"A">>

KeyLowerA == <<"a">>

Title == <<"T","i","t","l","e">>

\* "##$" key "=" value
ParamLine(k, v) == <<"#","#","$">> \o k \o <<"=">> \o v

\* "##" key "=" value
MetaLine(k, v) == <<"#","#">> \o k \o <<"=">> \o v

\* 2^32 in decimal: the square of it does not fit a usize
TwoTo32 == <<"4","2","9","4","9","6","7","2","9","6">>

LineBlank == <<"\n">>

LineComment == <<"$","$"," ","c","\n">>

\* ##$A=( 2 ) with a CR LF line ending
LineDims2 == ParamLine(KeyA, <<"(", " ", "2", " ", ")", "\r", "\n">>)

LineDims11 == ParamLine(KeyA, <<"(", "1", ",", "1", ")", "\n">>)

\* ##$A=(1,3): three items, which may come on three lines
LineDims13 == ParamLine(KeyA, <<"(", "1", ",", "3", ")", "\n">>)

LineDims0 == ParamLine(KeyLowerA, <<"(", "0", ")", "\n">>)

\* ##$A=(4294967296,4294967296), the last line of a file without a newline
LineDimsBig == ParamLine(KeyA, <<"(">> \o TwoTo32 \o <<",">> \o TwoTo32 \o <<")">>)

\* "##$ A = 7 "
LineScalar7 == ParamLine(<<" ","A"," ">>, <<" ","7"," ","\n">>)

LineScalarNo == ParamLine(KeyLowerA, <<"N","o","\n">>)

\* ##$A=( ): parentheses without a dimension
LineNoDims == ParamLine(KeyA, <<"(", " ", ")", "\n">>)

\* "##Title= My S"
LineMetaTitle == MetaLine(Title, <<" ","M","y"," ","S","\n">>)

LineMetaUpper == MetaLine(ToAsciiUppercase(Title), <<"x","\n">>)

LineBracket == <<"<","a"," ","b",">","\n">>

\* " 1  Yes\t2.5"
LineThree == <<" ","1"," "," ","Y","e","s","\t","2",".","5","\n">>

LineOne == <<"8","\n">>

\* the lines a run may read, each as read_line returns it
Lines ==
  { LineBlank, LineComment, LineDims2, LineDims11, LineDims0, LineDimsBig,
    LineScalar7, LineScalarNo, LineNoDims, LineMetaTitle, LineMetaUpper,
    LineBracket, LineThree, LineOne }

(***************************************************************************)
(* parse_paravision_params                                                 *)
(***************************************************************************)

VARIABLES
  meta,     \* out.meta: key -> text
  params,   \* out.params: key -> PvValue
  pending,  \* the Option<Pending> of the loop
  ret,      \* what the call has returned, "Running" until it does
  checked,  \* the build checks arithmetic overflow (debug) or wraps (release)
  last,     \* the line read last, as read_line returned it
  nread,    \* the number of lines read
  replaced, \* what HashMap::insert returned in the last step: the old entry
  input,    \* the input a driver has chosen: tokens to distribute, a token, a value
  cuts,     \* the sizes of the chunks a driver has fed, in order
  res       \* the result of the function a driver has applied

parser == <<meta, params, pending, ret, checked, last, nread, replaced>>

driver == <<input, cuts, res>>

vars == <<meta, params, pending, ret, checked, last, nread, replaced,
          input, cuts, res>>

NoPending == [tag |-> "None"]

PendingDims(key, dims) == [tag |-> "Dims", key |-> key, dims |-> dims]

PendingArray(key, dims, need, items) ==
  [tag |-> "Array", key |-> key, dims |-> dims, need |-> need, items |-> items]

Running == [tag |-> "Running"]

Panicked == [tag |-> "Panic"]

ErrIo == [tag |-> "Err", kind |-> "Io"]

ErrParse(p) == [tag |-> "Err", kind |-> "Parse", pending |-> p]

Ok(m, ps) == [tag |-> "Ok", meta |-> m, params |-> ps]

NotReplaced == [tag |-> "None"]

\* the Option<V> that insert(k, _) returns on map m of the store
OldEntry(store, m, k) ==
  IF k \in DOMAIN m
  THEN [tag |-> "Some", store |-> store, key |-> k, old |-> m[k]]
  ELSE NotReplaced

NoResult == [tag |-> "None"]

\* the line as the loop body sees it: line endings stripped, then trimmed
Stripped(raw) == Trim(TrimEndMatches(raw))

\* the test for content, were a "$$" line not skipped
IsContentWithComments(raw) == Stripped(raw) # <<>>

\* neither empty nor a "$$" comment: the loop body goes on
IsContent(raw) ==
  LET s == Stripped(raw) IN s # <<>> /\ ~StartsWith(s, <<"$","$">>)

\* the state when the loop starts
ParserInit ==
  /\ meta = <<>>
  /\ params = <<>>
  /\ pending = NoPending
  /\ ret = Running
  /\ checked \in BOOLEAN
  /\ last = <<>>
  /\ nread = 0
  /\ replaced = NotReplaced

Init ==
  /\ ParserInit
  /\ input = <<>>
  /\ cuts = <<>>
  /\ res = NoResult

\* read_line returned a line: the part of every step that reads
Read(raw) ==
  /\ ret = Running
  /\ nread < MaxLines
  /\ last' = raw
  /\ nread' = nread + 1
  /\ UNCHANGED checked

\* an empty line or a comment: continue
SkipLine(raw) ==
  /\ Read(raw)
  /\ ~IsContent(raw)
  /\ UNCHANGED <<meta, params, pending, ret>>
  /\ replaced' = NotReplaced

\* StoreOrWait, were a record that is still short left in Pending::Dims
StoreOrWaitForKind(key, dims, need, items) ==
  IF LenAtLeast(Len(items), need)
  THEN /\ params' = Insert(params, key, Array(dims, Truncate(items, need)))
       /\ replaced' = OldEntry("params", params, key)
       /\ pending' = NoPending
  ELSE /\ params' = params
       /\ replaced' = NotReplaced
       /\ pending' = PendingDims(key, dims)

\* the array is complete with these items, or stays pending
StoreOrWait(key, dims, need, items) ==
  IF LenAtLeast(Len(items), need)
  THEN /\ params' = Insert(params, key, Array(dims, Truncate(items, need)))
       /\ replaced' = OldEntry("params", params, key)
       /\ pending' = NoPending
  ELSE /\ params' = params
       /\ replaced' = NotReplaced
       /\ pending' = PendingArray(key, dims, need, items)

\* Pending::Dims: this line decides between Str and Array
DecideKind(raw) ==
  /\ Read(raw)
  /\ IsContent(raw)
  /\ pending.tag = "Dims"
  /\ LET s   == Stripped(raw)
         txt == ParseAngleBrackets(s)
         prd == Product(pending.dims)
     IN  IF txt.some
         THEN /\ params' = Insert(params, pending.key, Str(txt.txt))
              /\ replaced' = OldEntry("params", params, pending.key)
              /\ pending' = NoPending
              /\ ret' = ret
         ELSE IF prd.overflow /\ checked
         THEN /\ ret' = Panicked
              /\ replaced' = NotReplaced
              /\ UNCHANGED <<params, pending>>
         ELSE /\ StoreOrWait(pending.key, pending.dims, prd.word,
                             PushAtomsFromLine(s, <<>>))
              /\ ret' = ret
  /\ UNCHANGED meta

\* Pending::Array, were the items of the earlier lines dropped
CollectItemsAfresh(raw) ==
  /\ Read(raw)
  /\ IsContent(raw)
  /\ pending.tag = "Array"
  /\ StoreOrWait(pending.key, pending.dims, pending.need,
                 PushAtomsFromLine(Stripped(raw), <<>>))
  /\ UNCHANGED <<meta, ret>>

\* Pending::Array: this line's atoms are appended
CollectItems(raw) ==
  /\ Read(raw)
  /\ IsContent(raw)
  /\ pending.tag = "Array"
  /\ StoreOrWait(pending.key, pending.dims, pending.need,
                 PushAtomsFromLine(Stripped(raw), pending.items))
  /\ UNCHANGED <<meta, ret>>

\* the classification of a "##" line, were it made before the pending state
\* is looked at
IsRecordWhilePending(raw) ==
  /\ IsContent(raw)
  /\ StartsWith(Stripped(raw), <<"#","#">>)

\* the line is classified as a record: nothing pending and it starts "##"
IsRecord(raw) ==
  /\ IsContent(raw)
  /\ pending = NoPending
  /\ StartsWith(Stripped(raw), <<"#","#">>)

\* the text after "##"
Rest(raw) == SubSeq(Stripped(raw), 3, Len(Stripped(raw)))

\* normalize_key without the change of case
NormalizeKeyTrimOnly(k) == Trim(k)

\* normalize_key
NormalizeKey(k) == ToAsciiUppercase(Trim(k))

\* ##KEY=VALUE: a meta record
MetaRecord(raw) ==
  /\ Read(raw)
  /\ IsRecord(raw)
  /\ ~StartsWith(Rest(raw), <<"$">>)
  /\ LET kv == SplitKeyValue(Rest(raw)) IN
     /\ meta' = Insert(meta, NormalizeKey(kv.k), Trim(kv.v))
     /\ replaced' = OldEntry("meta", meta, NormalizeKey(kv.k))
  /\ UNCHANGED <<params, pending, ret>>

\* key and value text of a ##$ record, the key as it stands
ParamKeyValueUntrimmed(raw) ==
  LET kv == SplitKeyValue(Tail(Rest(raw))) IN
  [key |-> kv.k, v |-> Trim(kv.v)]

\* key and trimmed value text of a ##$ record
ParamKeyValue(raw) ==
  LET kv == SplitKeyValue(Tail(Rest(raw))) IN
  [key |-> Trim(kv.k), v |-> Trim(kv.v)]

\* a dims header, were an empty array stored under the key at once
DimsHeaderStoresEmpty(raw) ==
  /\ Read(raw)
  /\ IsRecord(raw)
  /\ StartsWith(Rest(raw), <<"$">>)
  /\ LET kv == ParamKeyValue(raw) IN
     /\ ParseDims(kv.v).some
     /\ pending' = PendingDims(kv.key, ParseDims(kv.v).dims)
     /\ params' = Insert(params, kv.key, Array(ParseDims(kv.v).dims, <<>>))
  /\ UNCHANGED <<meta, ret>>
  /\ replaced' = NotReplaced

\* a dims header, were a record of no elements completed on the header line
DimsHeaderCompletesEmpty(raw) ==
  /\ Read(raw)
  /\ IsRecord(raw)
  /\ StartsWith(Rest(raw), <<"$">>)
  /\ LET kv == ParamKeyValue(raw) IN
     /\ ParseDims(kv.v).some
     /\ IF Product(ParseDims(kv.v).dims).word = ZeroWord
        THEN /\ params' = Insert(params, kv.key, Array(ParseDims(kv.v).dims, <<>>))
             /\ pending' = NoPending
        ELSE /\ params' = params
             /\ pending' = PendingDims(kv.key, ParseDims(kv.v).dims)
  /\ UNCHANGED <<meta, ret>>
  /\ replaced' = NotReplaced

\* ##$KEY=( dims ): the value follows on the next lines
DimsHeader(raw) ==
  /\ Read(raw)
  /\ IsRecord(raw)
  /\ StartsWith(Rest(raw), <<"$">>)
  /\ LET kv == ParamKeyValue(raw) IN
     /\ ParseDims(kv.v).some
     /\ pending' = PendingDims(kv.key, ParseDims(kv.v).dims)
  /\ UNCHANGED <<meta, params, ret>>
  /\ replaced' = NotReplaced

\* ##$KEY=VALUE: a scalar parameter
ScalarRecord(raw) ==
  /\ Read(raw)
  /\ IsRecord(raw)
  /\ StartsWith(Rest(raw), <<"$">>)
  /\ LET kv == ParamKeyValue(raw) IN
     /\ ~ParseDims(kv.v).some
     /\ params' = Insert(params, kv.key, Scalar(ParseAtom(kv.v)))
     /\ replaced' = OldEntry("params", params, kv.key)
  /\ UNCHANGED <<meta, pending, ret>>

\* a line without "##" while nothing is pending, were it reported as an error
IgnoreLineAsError(raw) ==
  /\ Read(raw)
  /\ IsContent(raw)
  /\ pending = NoPending
  /\ ~StartsWith(Stripped(raw), <<"#","#">>)
  /\ ret' = ErrParse(pending)
  /\ UNCHANGED <<meta, params, pending>>
  /\ replaced' = NotReplaced

\* a line without "##" while nothing is pending: falls through the loop body
IgnoreLine(raw) ==
  /\ Read(raw)
  /\ IsContent(raw)
  /\ pending = NoPending
  /\ ~StartsWith(Stripped(raw), <<"#","#">>)
  /\ UNCHANGED <<meta, params, pending, ret>>
  /\ replaced' = NotReplaced

\* one iteration of the loop on the line raw
ReadLine(raw) ==
  \/ SkipLine(raw)
  \/ DecideKind(raw)
  \/ CollectItems(raw)
  \/ MetaRecord(raw)
  \/ DimsHeader(raw)
  \/ ScalarRecord(raw)
  \/ IgnoreLine(raw)

\* what the call returns when read_line returns 0, were it always Ok
FinishGracefully == Ok(meta, params)

\* what the call returns when read_line returns 0
Finish == IF pending # NoPending THEN ErrParse(pending) ELSE Ok(meta, params)

\* read_line returned 0: end of stream
EndOfStream ==
  /\ ret = Running
  /\ ret' = Finish
  /\ UNCHANGED <<meta, params, pending, checked, last, nread, replaced>>

\* read_line returned an error, which `?` returns
ReadFails ==
  /\ ret = Running
  /\ ret' = ErrIo
  /\ UNCHANGED <<meta, params, pending, checked, last, nread, replaced>>

Next ==
  \/ \E raw \in Lines : SkipLine(raw) /\ UNCHANGED driver
  \/ \E raw \in Lines : DecideKind(raw) /\ UNCHANGED driver
  \/ \E raw \in Lines : CollectItems(raw) /\ UNCHANGED driver
  \/ \E raw \in Lines : MetaRecord(raw) /\ UNCHANGED driver
  \/ \E raw \in Lines : DimsHeader(raw) /\ UNCHANGED driver
  \/ \E raw \in Lines : ScalarRecord(raw) /\ UNCHANGED driver
  \/ \E raw \in Lines : IgnoreLine(raw) /\ UNCHANGED driver
  \/ EndOfStream /\ UNCHANGED driver
  \/ ReadFails /\ UNCHANGED driver

Spec == Init /\ [][Next]_vars

(***************************************************************************)
(* A stream that spreads an array's tokens over lines: the header          *)
(* ##$A=( n ) or ##$A=(1,n), then the tokens in order in chunks of any     *)
(* sizes, one chunk a line, then the end of the stream                     *)
(***************************************************************************)

\* the most elements an array of such a stream declares
MaxNeed == 3

SplitTokens == { <<"7">>, <<"<","a">>, <<"b",">">>, <<"$","$","c">> }

SplitInputs ==
  UNION { { [need |-> n, two |-> b, toks |-> ts] : ts \in [1..n -> SplitTokens] }
          : <<n, b>> \in (0..MaxNeed) \X BOOLEAN }

\* the dims a header declares for the input i
SplitDims(i) ==
  IF i.two THEN <<WordOf(1), WordOf(i.need)>> ELSE <<WordOf(i.need)>>

\* the header line of the input i
SplitHeader(i) ==
  ParamLine(KeyA,
            IF i.two THEN <<"(", "1", ",", DigitChars[i.need + 1], ")", "\n">>
            ELSE <<"(", " ", DigitChars[i.need + 1], " ", ")", "\n">>)

RECURSIVE SumSeq(_)
SumSeq(q) == IF q = <<>> THEN 0 ELSE Head(q) + SumSeq(Tail(q))

\* the tokens ts on one line, a space between two
RECURSIVE JoinTokens(_)
JoinTokens(ts) ==
  IF ts = <<>> THEN <<>>
  ELSE IF Len(ts) = 1 THEN Head(ts)
  ELSE Head(ts) \o <<" ">> \o JoinTokens(Tail(ts))

\* the line of the n tokens that follow the first `from` tokens
ChunkLine(ts, from, n) == JoinTokens(SubSeq(ts, from + 1, from + n)) \o <<"\n">>

SplitInit ==
  /\ ParserInit
  /\ input \in SplitInputs
  /\ cuts = <<>>
  /\ res = NoResult

FeedHeader ==
  /\ nread = 0
  /\ ReadLine(SplitHeader(input))
  /\ UNCHANGED driver

FeedChunk ==
  /\ nread >= 1
  /\ \E n \in 1..(Len(input.toks) - SumSeq(cuts)) :
       /\ ReadLine(ChunkLine(input.toks, SumSeq(cuts), n))
       /\ cuts' = Append(cuts, n)
  /\ UNCHANGED <<input, res>>

SplitEnd ==
  /\ nread >= 1
  /\ SumSeq(cuts) = Len(input.toks)
  /\ EndOfStream
  /\ UNCHANGED driver

SplitNext == FeedHeader \/ FeedChunk \/ SplitEnd

SplitSpec == SplitInit /\ [][SplitNext]_vars

(***************************************************************************)
(* Properties of the parser                                                *)
(***************************************************************************)

\* this step read a line and the line is content
ReadContent == nread' = nread + 1 /\ IsContent(last')

\* the content line of this step, as the loop body sees it
LineNow == Stripped(last')

\* the map m with the entry k -> v, every other entry as it was
With(m, k, v) == [x \in (DOMAIN m) \cup {k} |-> IF x = k THEN v ELSE m[x]]

\* s is "<" text ">"
IsBracketed(s) == Len(s) >= 2 /\ s[1] = "<" /\ s[Len(s)] = ">"

Inner(s) == SubSeq(s, 2, Len(s) - 1)

\* the atoms of the tokens of s, in order
AtomsOf(s) ==
  LET toks == SplitWhitespace(s) IN [i \in 1..Len(toks) |-> ParseAtom(toks[i])]

\* s is "##$" K "=" V
IsParamLine(s) == StartsWith(s, <<"#","#","$">>) /\ FindChar(s, "=") > 0

ParamKeyOf(s) == Trim(SubSeq(s, 4, FindChar(s, "=") - 1))

ParamValueOf(s) == Trim(SubSeq(s, FindChar(s, "=") + 1, Len(s)))

\* s is "##" KEY "=" VALUE without a "$" after the marker
IsMetaLine(s) ==
  StartsWith(s, <<"#","#">>) /\ ~StartsWith(s, <<"#","#","$">>) /\ FindChar(s, "=") > 0

MetaKeyOf(s) == Trim(SubSeq(s, 3, FindChar(s, "=") - 1))

MetaValueOf(s) == Trim(SubSeq(s, FindChar(s, "=") + 1, Len(s)))

\* C1: when the stream ends while a continuation is pending (Pending::Dims
\* or Pending::Array) the call returns Err(PvError::Parse) naming the pending
\* record and no PvParams; Ok, with the store as built, is returned only
\* when nothing is pending at the end of the stream.
C1_EofWhilePendingIsError ==
  /\ [](ret.tag = "Ok" => pending = NoPending /\ ret = Ok(meta, params))
  /\ [][(ret = Running /\ ret' # Running /\ nread' = nread /\ ret' # ErrIo)
          => IF pending # NoPending
             THEN ret' = ErrParse(pending)
             ELSE ret' = Ok(meta, params)]_vars

\* the stream ended in the middle of an array: an error, and the partial
\* items are in no store
C1_Witness ==
  /\ ret.tag = "Err" /\ ret.kind = "Parse"
  /\ ret.pending.tag = "Array" /\ ret.pending.items # <<>>
  /\ ret.pending.key \notin DOMAIN params

\* the tokens of chunk k of the distribution q of the tokens ts
ChunkTokens(ts, q, k) ==
  SubSeq(ts, SumSeq(SubSeq(q, 1, k - 1)) + 1, SumSeq(SubSeq(q, 1, k)))

\* the first line of the distribution reads "<" ... ">"
FirstLineBracketed(ts, q) ==
  /\ q # <<>>
  /\ LET c == ChunkTokens(ts, q, 1) IN
     Head(c[1]) = "<" /\ c[Len(c)][Len(c[Len(c)])] = ">"

\* a line of the distribution starts with the comment marker "$$"
SomeLineIsComment(ts, q) ==
  \E k \in 1..Len(q) : StartsWith(ChunkTokens(ts, q, k)[1], <<"$","$">>)

\* the array the header and the tokens of the input i describe
SplitArray(i) == Array(SplitDims(i), [k \in 1..i.need |-> ParseAtom(i.toks[k])])

\* C2 as stated: whatever the tokens and however they are spread over one
\* or more lines after the header, the call returns the store with
\* Array{dims, atoms of the tokens} under the key.
C2_AnySplitSameArray ==
  (ret # Running /\ input.need >= 1) =>
    /\ ret.tag = "Ok"
    /\ DOMAIN ret.params = {KeyA}
    /\ ret.params[KeyA] = SplitArray(input)

\* C2 (amended): for a header that declares one element or more, every
\* distribution of the tokens whose first line does not read <...> and none
\* of whose lines starts with "$$" returns the store with
\* Array{dims, atoms of the tokens} under the key.
C2_SplitInvariant ==
  (/\ ret # Running
   /\ input.need >= 1
   /\ ~FirstLineBracketed(input.toks, cuts)
   /\ ~SomeLineIsComment(input.toks, cuts))
    => /\ ret.tag = "Ok"
       /\ DOMAIN ret.params = {KeyA}
       /\ ret.params[KeyA] = SplitArray(input)

\* "<a", "7", "b>" as one line and then two: an array of three atoms (on
\* one line the same tokens read <a 7 b>, a string)
C2_Witness ==
  /\ ret.tag = "Ok"
  /\ input.toks = << <<"<","a">>, <<"7">>, <<"b",">">> >>
  /\ cuts = <<1, 2>>
  /\ ret.params[KeyA] =
       Array(SplitDims(input),
             <<TextAtom(<<"<","a">>), IntAtom(WordOf(7)), TextAtom(<<"b",">">>)>>)

\* the product of dims as a number is n (no width: 2^32 * 2^32 is 2^64)
ExactProductIs(dims, n) ==
  IF \E i \in 1..Len(dims) : dims[i] = ZeroWord
  THEN n = 0
  ELSE LET p == Product(dims) IN
       ~p.overflow /\ IsSmallWord(p.word) /\ SmallVal(p.word) = n

\* C3: every PvValue::Array in params has a non-empty dims and exactly
\* product(dims) items.
C3_ArrayLengthIsProduct ==
  \A k \in DOMAIN params :
    params[k].tag = "Array" =>
      /\ params[k].dims # <<>>
      /\ ExactProductIs(params[k].dims, Len(params[k].items))

\* C4: in Pending::Dims (a dims header was the last content line), a content
\* line whose trimmed text is <text> stores Str(text), without the brackets,
\* under the header's key, changes no other entry, consumes that one line
\* and leaves nothing pending.
C4_BracketLineGivesStr ==
  [][(pending.tag = "Dims" /\ ReadContent) =>
       LET s == LineNow IN
       IsBracketed(s)
         => /\ params' = With(params, pending.key, Str(Inner(s)))
            /\ pending' = NoPending
            /\ meta' = meta
            /\ ret' = Running]_vars

\* header, then "<a b>": two lines read, Str("a b") stored, nothing pending
C4_Witness ==
  /\ nread = 2
  /\ last = LineBracket
  /\ pending = NoPending
  /\ KeyA \in DOMAIN params /\ params[KeyA] = Str(<<"a"," ","b">>)

\* the content line s completes the pending array p with tokens to spare
CompletesWithExcess(p, s, chk) ==
  \/ /\ p.tag = "Array"
     /\ IsSmallWord(p.need)
     /\ Len(p.items) + Len(SplitWhitespace(s)) > SmallVal(p.need)
  \/ /\ p.tag = "Dims"
     /\ ~IsBracketed(s)
     /\ LET prd == Product(p.dims) IN
        /\ ~(chk /\ prd.overflow)
        /\ IsSmallWord(prd.word)
        /\ Len(SplitWhitespace(s)) > SmallVal(prd.word)

\* the atoms collected for the pending record p once the line s is added
Collected(p, s) == (IF p.tag = "Array" THEN p.items ELSE <<>>) \o AtomsOf(s)

\* the number of items the pending record p needs
NeedOf(p) ==
  IF p.tag = "Array" THEN SmallVal(p.need) ELSE SmallVal(Product(p.dims).word)

\* C5: when the line that completes an array has more tokens than are still
\* needed, the first `need` atoms in stream order are stored, the rest are
\* dropped, nothing is pending or reported, and no other entry changes.
C5_ExcessTokensDiscarded ==
  [][(pending # NoPending /\ ReadContent) =>
       LET s == LineNow IN
       CompletesWithExcess(pending, s, checked)
         => /\ params' = With(params, pending.key,
                              Array(pending.dims,
                                    SubSeq(Collected(pending, s), 1, NeedOf(pending))))
            /\ pending' = NoPending
            /\ meta' = meta
            /\ ret' = Running]_vars

\* "( 2 )", "8", then "1 Yes 2.5": 8 and 1 are stored, Yes and 2.5 dropped
C5_Witness ==
  /\ nread = 3
  /\ last = LineThree
  /\ pending = NoPending
  /\ meta = <<>>
  /\ DOMAIN params = {KeyA}
  /\ params[KeyA] = Array(<<WordOf(2)>>, <<IntAtom(WordOf(8)), IntAtom(WordOf(1))>>)

\* the line of this step is ##$K=V with V no dims list
IsScalarParamLine(s) == IsParamLine(s) /\ ~ParseDims(ParamValueOf(s)).some

\* C6 as stated: every line ##$K=V of the input, V no dims list, leaves
\* params[K] = Scalar(parse_atom(V)), whatever the state it arrives in.
C6_AnyScalarLineStored ==
  [][ReadContent =>
       LET s == LineNow IN
       IsScalarParamLine(s)
         => /\ ParamKeyOf(s) \in DOMAIN params'
            /\ params'[ParamKeyOf(s)] = Scalar(ParseAtom(ParamValueOf(s)))]_vars

\* C6 (amended): a line ##$K=V, V no dims list, read while no continuation
\* is pending leaves params[K] = Scalar(parse_atom(V)), K trimmed and in
\* the case it was written in, and changes nothing else.
C6_ScalarLineStoredWhenIdle ==
  [][(pending = NoPending /\ ReadContent) =>
       LET s == LineNow IN
       IsScalarParamLine(s)
         => /\ params' = With(params, ParamKeyOf(s), Scalar(ParseAtom(ParamValueOf(s))))
            /\ pending' = NoPending
            /\ meta' = meta
            /\ ret' = Running]_vars

\* "##$ A = 7 " stored under "A" as Int(7), beside "a" = Bool(false)
C6_Witness ==
  /\ last = LineScalar7
  /\ pending = NoPending
  /\ DOMAIN params = {KeyA, KeyLowerA}
  /\ params[KeyA] = Scalar(IntAtom(WordOf(7)))
  /\ params[KeyLowerA] = Scalar(BoolAtom(FALSE))

\* the record that the content line s completes in pending state p, if any
CompletedBy(p, s, chk) ==
  LET atoms == AtomsOf(s)
      none  == [tag |-> "None"]
      array(dims, have, need) ==
        IF IsSmallWord(need) /\ Len(have) + Len(atoms) >= SmallVal(need)
        THEN [tag |-> "Some", store |-> "params", key |-> p.key,
              val |-> Array(dims, SubSeq(have \o atoms, 1, SmallVal(need)))]
        ELSE none
  IN  IF p = NoPending
      THEN IF IsMetaLine(s)
           THEN [tag |-> "Some", store |-> "meta",
                 key |-> ToAsciiUppercase(MetaKeyOf(s)), val |-> MetaValueOf(s)]
           ELSE IF IsScalarParamLine(s)
           THEN [tag |-> "Some", store |-> "params", key |-> ParamKeyOf(s),
                 val |-> Scalar(ParseAtom(ParamValueOf(s)))]
           ELSE none
      ELSE IF p.tag = "Array" THEN array(p.dims, p.items, p.need)
      ELSE IF IsBracketed(s)
      THEN [tag |-> "Some", store |-> "params", key |-> p.key, val |-> Str(Inner(s))]
      ELSE LET prd == Product(p.dims) IN
           IF chk /\ prd.overflow THEN none ELSE array(p.dims, <<>>, prd.word)

\* C7: last write wins.  Whenever a record completes, in meta or in params,
\* its key holds the record's value afterwards, whether or not the key held
\* a value before; every other entry is as it was; and the step reports no
\* error.
C7_LastWriteWins ==
  [][ReadContent =>
       LET rec == CompletedBy(pending, LineNow, checked) IN
       rec.tag = "Some" =>
         /\ ret' = Running
         /\ IF rec.store = "meta"
            THEN meta' = With(meta, rec.key, rec.val) /\ params' = params
            ELSE params' = With(params, rec.key, rec.val) /\ meta' = meta]_vars

\* an array has just replaced a scalar held under the same key
C7_Witness ==
  /\ replaced.tag = "Some"
  /\ replaced.store = "params"
  /\ replaced.old.tag = "Scalar"
  /\ params[replaced.key].tag = "Array"
  /\ ret = Running

\* C8: a line ##KEY=VALUE read while nothing is pending stores trim(VALUE)
\* as it stands under the upper-cased trim(KEY) in meta and leaves params and
\* the pending state alone, so every key of meta is in upper case and keys
\* that differ in case share an entry; a ##$ record read while nothing is
\* pending uses its key as written: a scalar adds exactly that key to params
\* and a dims header keeps exactly that key for its value.
C8_MetaUpperParamsAsWritten ==
  /\ [](\A k \in DOMAIN meta : k = ToAsciiUppercase(k))
  /\ [][(pending = NoPending /\ ReadContent) =>
          LET s == LineNow IN
          /\ IsMetaLine(s)
               => /\ meta' = With(meta, ToAsciiUppercase(MetaKeyOf(s)), MetaValueOf(s))
                  /\ params' = params
                  /\ pending' = pending
                  /\ ret' = Running
          /\ IsParamLine(s)
               => IF IsScalarParamLine(s)
                  THEN DOMAIN params' = (DOMAIN params) \cup {ParamKeyOf(s)}
                  ELSE pending'.tag = "Dims" /\ pending'.key = ParamKeyOf(s)]_vars

\* "##TITLE=x" then "##Title= My S" share the entry TITLE, which holds the
\* later text; "A" and "a" are two entries of params
C8_Witness ==
  /\ last = LineMetaTitle
  /\ DOMAIN meta = {ToAsciiUppercase(Title)}
  /\ meta[ToAsciiUppercase(Title)] = <<"M","y"," ","S">>
  /\ replaced = [tag |-> "Some", store |-> "meta",
                 key |-> ToAsciiUppercase(Title), old |-> <<"x">>]
  /\ {KeyA, KeyLowerA} \subseteq DOMAIN params

(***************************************************************************)
(* parse_atom on its own: one token is drawn and classified                *)
(***************************************************************************)

\* the longest token drawn from TokenChars
MaxTokenLen == 3

\* characters of the drawn tokens: a digit, the signs, the point, the
\* exponent letter, the letters of "no" in both cases and an inner blank
TokenChars == {"1", "0", "-", "+", ".", "e", "n", "o", "O", " "}

RECURSIVE TokensUpTo(_)
TokensUpTo(n) ==
  IF n = 0 THEN {<<>>}
  ELSE LET shorter == TokensUpTo(n - 1) IN
       shorter \cup {Append(t, c) : t \in {u \in shorter : Len(u) = n - 1},
                                   c \in TokenChars}

I64Max == <<"9","2","2","3","3","7","2","0","3","6","8","5","4","7","7","5","8","0","7">>

I64MaxPlusOne == <<"9","2","2","3","3","7","2","0","3","6","8","5","4","7","7","5","8","0","8">>

\* longer tokens: the keywords in several cases, the ends of the i64 range,
\* the special float literals and texts that only look numeric
LongTokens ==
  { Yes, <<"Y","e","s">>, <<"Y","E","S">>, True, <<"T","R","U","E">>,
    <<"T","r","u","e">>, <<"N","o">>, False, <<"F","A","L","S","E">>,
    <<"y","e","s","s">>, <<"t","r","u">>,
    I64Max, I64MaxPlusOne, <<"-">> \o I64MaxPlusOne,
    <<"-">> \o I64Max, <<"+">> \o I64Max,
    <<"-","9","2","2","3","3","7","2","0","3","6","8","5","4","7","7","5","8","0","9">>,
    <<"0","0">> \o I64Max, <<"1","0">> \o I64Max,
    <<"i","n","f">>, <<"-","I","n","f">>, <<"N","a","N">>,
    <<"i","n","f","i","n","i","t","y">>, <<"i","n","f","i","n">>,
    <<"1","E","+","5">>, <<"-","2",".","5","e","-","3">>, <<"1","e","5",".">>,
    <<"0","x","1","F">>, <<"1","_","0">>, <<"1",",","5">>, <<"1","2","a">>,
    <<"P","a","r","a","l","l","e","l">> }

\* what split_whitespace and split_key_value hand to parse_atom: a text with
\* no blank at either end
AtomTokens == {t \in TokensUpTo(MaxTokenLen) \cup LongTokens : Trim(t) = t}

AtomInit ==
  /\ ParserInit
  /\ input \in AtomTokens
  /\ cuts = <<>>
  /\ res = NoResult

\* one call parse_atom(input)
Classify ==
  /\ res = NoResult
  /\ res' = [tag |-> "Some", atom |-> ParseAtom(input)]
  /\ UNCHANGED <<parser, input, cuts>>

AtomNext == Classify

AtomSpec == AtomInit /\ [][AtomNext]_vars

(***************************************************************************)
(* C9: the priority order of parse_atom                                    *)
(***************************************************************************)

\* t spells the keyword w in some mix of upper and lower case
Spells(t, w) ==
  /\ Len(t) = Len(w)
  /\ \A i \in 1..Len(w) : t[i] = w[i] \/ t[i] = UpperChar(w[i])

IsTrueKeyword(t) == Spells(t, Yes) \/ Spells(t, True)

IsFalseKeyword(t) == Spells(t, No) \/ Spells(t, False)

RECURSIVE DropZeros(_)
DropZeros(ds) ==
  IF ds # <<>> /\ Head(ds) = "0" THEN DropZeros(Tail(ds)) ELSE ds

\* a <= b for two digit strings of the same length
DecimalLeq(a, b) ==
  \/ a = b
  \/ \E i \in 1..Len(a) :
       /\ DigitVal(a[i]) < DigitVal(b[i])
       /\ \A j \in 1..(i - 1) : a[j] = b[j]

\* t is a decimal numeral of a number in -2^63 .. 2^63 - 1, decided on the
\* digits: an optional sign, at least one digit, and the digits without
\* their leading zeros no greater than the digits of the limit
IsI64Numeral(t) ==
  LET signed == t # <<>> /\ Head(t) \in {"+", "-"}
      ds     == IF signed THEN Tail(t) ELSE t
      sig    == DropZeros(ds)
      limit  == IF signed /\ Head(t) = "-" THEN I64MaxPlusOne ELSE I64Max
  IN  /\ ds # <<>>
      /\ AllDigits(ds)
      /\ \/ Len(sig) < Len(limit)
         \/ Len(sig) = Len(limit) /\ DecimalLeq(sig, limit)

RECURSIVE NaturalOf(_, _)
NaturalOf(ds, acc) ==
  IF ds = <<>> THEN acc ELSE NaturalOf(Tail(ds), 10 * acc + DigitVal(Head(ds)))

\* the i64 a numeral denotes, for the numerals whose value the model can
\* write down: up to four significant digits, and the two ends of the range
NumeralKnown(t) ==
  LET ds == IF Head(t) \in {"+", "-"} THEN Tail(t) ELSE t
  IN  Len(DropZeros(ds)) <= 4 \/ DropZeros(ds) \in {I64Max, I64MaxPlusOne}

NumeralWord(t) ==
  LET neg == Head(t) = "-"
      ds  == IF Head(t) \in {"+", "-"} THEN Tail(t) ELSE t
      sig == DropZeros(ds)
  IN  IF sig = I64Max
      THEN IF neg
           THEN [i \in 1..WordBytes |->
                   IF i = 1 THEN 1 ELSE IF i = WordBytes THEN LimbBase \div 2 ELSE 0]
           ELSE [i \in 1..WordBytes |->
                   IF i = WordBytes THEN LimbBase \div 2 - 1 ELSE LimbBase - 1]
      ELSE IF sig = I64MaxPlusOne
      THEN [i \in 1..WordBytes |-> IF i = WordBytes THEN LimbBase \div 2 ELSE 0]
      ELSE IF neg THEN NegWord(WordOf(NaturalOf(sig, 0)))
      ELSE WordOf(NaturalOf(sig, 0))

\* C9: parse_atom classifies a token in strict priority order: yes/true in
\* any case is Bool(true), no/false in any case is Bool(false); otherwise a
\* base-10 numeral of a signed 64-bit integer is Int of that integer;
\* otherwise a float literal is Float; otherwise the token is Text(token).
\* So no token that parses as an integer is classified Float, and a keyword
\* is only ever classified Bool.
C9_PriorityOrder ==
  res.tag = "Some" =>
    LET t == input
        a == res.atom
    IN  /\ IF IsTrueKeyword(t) THEN a = BoolAtom(TRUE)
           ELSE IF IsFalseKeyword(t) THEN a = BoolAtom(FALSE)
           ELSE IF IsI64Numeral(t)
                THEN /\ a.tag = "Int"
                     /\ NumeralKnown(t) => a = IntAtom(NumeralWord(t))
           ELSE IF IsF64(t) THEN a = FloatAtom(t)
           ELSE a = TextAtom(t)
        /\ a.tag = "Float" => ~IsI64Numeral(t)
        /\ (IsTrueKeyword(t) \/ IsFalseKeyword(t)) => a.tag = "Bool"

\* a token that is both an integer numeral and a float literal has been
\* classified, and it is an Int
C9_Witness ==
  /\ res.tag = "Some"
  /\ IsI64Numeral(input) /\ IsF64(input)
  /\ res.atom.tag = "Int"

(***************************************************************************)
(* Conversions of atoms (impl From<PvAtom> for f64, usize, i64, bool)      *)
(*                                                                         *)
(* A conversion returns [ok, v]: ok is FALSE when the code panics.  An f64 *)
(* is written as the number it is nearest to: an integer word or a float   *)
(* literal.                                                                *)
(***************************************************************************)

Converted(x) == [ok |-> TRUE, v |-> x]

ConversionPanics == [ok |-> FALSE, v |-> <<>>]

F64OfInt(w) == [of |-> "int", i |-> w]

F64OfLit(t) == [of |-> "lit", lit |-> t]

\* usize::MAX
MaxWord == [i \in 1..WordBytes |-> LimbBase - 1]

\* i64::MAX
MaxI64Word ==
  [i \in 1..WordBytes |-> IF i = WordBytes THEN LimbBase \div 2 - 1 ELSE LimbBase - 1]

RECURSIVE Zeros(_)
Zeros(n) == IF n <= 0 THEN <<>> ELSE <<"0">> \o Zeros(n - 1)

\* a float literal taken apart: its sign, whether it is nan or an infinity,
\* and for a number the digits of the mantissa with the place of the point
\* after the exponent is applied
FloatParts(lit) ==
  LET l     == ToAsciiLowercase(lit)
      neg   == l # <<>> /\ Head(l) = "-"
      body  == IF l # <<>> /\ Head(l) \in {"+", "-"} THEN Tail(l) ELSE l
      me    == SplitChar(body, "e")
      ip    == SplitChar(me[1], ".")
      whole == ip[1]
      frac  == IF Len(ip) = 2 THEN ip[2] ELSE <<>>
      ex    == IF Len(me) = 2 THEN me[2] ELSE <<>>
      exneg == ex # <<>> /\ Head(ex) = "-"
      exds  == IF ex # <<>> /\ Head(ex) \in {"+", "-"} THEN Tail(ex) ELSE ex
      exval == SmallVal(ParseDigitsFrom(exds, ZeroWord).word)
  IN  [neg    |-> neg,
       nan    |-> body = <<"n","a","n">>,
       inf    |-> body \in {<<"i","n","f">>, <<"i","n","f","i","n","i","t","y">>},
       digits |-> whole \o frac,
       point  |-> Len(whole) + (IF exneg THEN 0 - exval ELSE exval)]

\* the digits of the integer part of a float number: those before the point
IntegerDigits(p) ==
  IF p.point <= 0 THEN <<>>
  ELSE IF p.point >= Len(p.digits)
       THEN p.digits \o Zeros(p.point - Len(p.digits))
       ELSE SubSeq(p.digits, 1, p.point)

\* f as usize: truncates toward zero and saturates, nan is 0.  The integer
\* part is read off the literal, which is what the f64 gives for literals of
\* fewer than 16 significant digits
FloatAsUsize(lit) ==
  LET p == FloatParts(lit)
      m == ParseDigitsFrom(IntegerDigits(p), ZeroWord)
  IN  IF p.nan \/ p.neg THEN ZeroWord
      ELSE IF p.inf \/ ~m.ok THEN MaxWord
      ELSE m.word

\* f as i64: truncates toward zero and saturates, nan is 0
FloatAsI64(lit) ==
  LET p == FloatParts(lit)
      m == ParseDigitsFrom(IntegerDigits(p), ZeroWord)
  IN  IF p.nan THEN ZeroWord
      ELSE IF p.inf \/ ~m.ok \/ IsNegative(m.word)
           THEN IF p.neg THEN MinMagnitude ELSE MaxI64Word
      ELSE IF p.neg THEN NegWord(m.word)
      ELSE m.word

\* f.abs() > 0.: false for nan and for both zeros.  A number is zero when
\* every digit of its mantissa is
FloatAbsPositive(lit) ==
  LET p == FloatParts(lit) IN
  IF p.nan THEN FALSE
  ELSE IF p.inf THEN TRUE
  ELSE \E i \in 1..Len(p.digits) : p.digits[i] # "0"

\* From<PvAtom> for f64
IntoF64(val) ==
  CASE val.tag = "Bool"  -> Converted(F64OfInt(WordOf(IF val.b THEN 1 ELSE 0)))
    [] val.tag = "Int"   -> Converted(F64OfInt(val.i))
    [] val.tag = "Float" -> Converted(F64OfLit(val.lit))
    [] val.tag = "Text"  ->
         IF IsF64(val.s) THEN Converted(F64OfLit(val.s)) ELSE ConversionPanics

\* From<PvAtom> for usize: i as usize keeps the 64 bits
IntoUsize(val) ==
  CASE val.tag = "Bool"  -> Converted(WordOf(IF val.b THEN 1 ELSE 0))
    [] val.tag = "Int"   -> Converted(val.i)
    [] val.tag = "Float" -> Converted(FloatAsUsize(val.lit))
    [] val.tag = "Text"  ->
         LET r == ParseUsize(val.s) IN
         IF r.ok THEN Converted(r.word) ELSE ConversionPanics

\* From<PvAtom> for i64
IntoI64(val) ==
  CASE val.tag = "Bool"  -> Converted(WordOf(IF val.b THEN 1 ELSE 0))
    [] val.tag = "Int"   -> Converted(val.i)
    [] val.tag = "Float" -> Converted(FloatAsI64(val.lit))
    [] val.tag = "Text"  ->
         LET r == ParseI64(val.s) IN
         IF r.ok THEN Converted(r.word) ELSE ConversionPanics

\* From<PvAtom> for bool.  i.abs() overflows for i64::MIN: a build with
\* overflow checks panics, one without gets i64::MIN back, which is not > 0.
\* str::parse::<bool> takes exactly "true" and "false"
IntoBool(val, chk) ==
  CASE val.tag = "Bool"  -> Converted(val.b)
    [] val.tag = "Int"   ->
         IF val.i = MinMagnitude
         THEN IF chk THEN ConversionPanics ELSE Converted(FALSE)
         ELSE Converted(val.i # ZeroWord)
    [] val.tag = "Float" -> Converted(FloatAbsPositive(val.lit))
    [] val.tag = "Text"  ->
         IF val.s = True THEN Converted(TRUE)
         ELSE IF val.s = False THEN Converted(FALSE)
         ELSE ConversionPanics

(***************************************************************************)
(* The typed sequence accessors of PvValue                                 *)
(***************************************************************************)

None == [tag |-> "None"]

Some(x) == [tag |-> "Some", v |-> x]

AccessorNames == {"to_vec_usize", "to_vec_f64", "to_vec_bool", "to_vec_i64"}

\* atom.into() for the element type of the accessor
Into(fn, atom, chk) ==
  CASE fn = "to_vec_usize" -> IntoUsize(atom)
    [] fn = "to_vec_f64"   -> IntoF64(atom)
    [] fn = "to_vec_bool"  -> IntoBool(atom, chk)
    [] fn = "to_vec_i64"   -> IntoI64(atom)

\* collect() of the converted items: the values in the order of the items,
\* or the panic of the first conversion that panics
Collect(cs) ==
  IF \E i \in 1..Len(cs) : ~cs[i].ok THEN Panicked
  ELSE Some([i \in 1..Len(cs) |-> cs[i].v])

\* to_vec_usize with the match of to_usize: an Array gives None
ToVecUsizeScalarOnly(value, chk) ==
  CASE value.tag = "Scalar" -> Collect(<<IntoUsize(value.atom)>>)
    [] value.tag = "Array"  -> None
    [] value.tag = "Str"    -> None

\* to_vec_usize
ToVecUsize(value, chk) ==
  CASE value.tag = "Scalar" -> Collect(<<IntoUsize(value.atom)>>)
    [] value.tag = "Array"  ->
         Collect([i \in 1..Len(value.items) |-> IntoUsize(value.items[i])])
    [] value.tag = "Str"    -> None

\* to_vec_f64
ToVecF64(value, chk) ==
  CASE value.tag = "Scalar" -> Collect(<<IntoF64(value.atom)>>)
    [] value.tag = "Array"  ->
         Collect([i \in 1..Len(value.items) |-> IntoF64(value.items[i])])
    [] value.tag = "Str"    -> None

\* to_vec_bool
ToVecBool(value, chk) ==
  CASE value.tag = "Scalar" -> Collect(<<IntoBool(value.atom, chk)>>)
    [] value.tag = "Array"  ->
         Collect([i \in 1..Len(value.items) |-> IntoBool(value.items[i], chk)])
    [] value.tag = "Str"    -> None

\* to_vec_i64
ToVecI64(value, chk) ==
  CASE value.tag = "Scalar" -> Collect(<<IntoI64(value.atom)>>)
    [] value.tag = "Array"  ->
         Collect([i \in 1..Len(value.items) |-> IntoI64(value.items[i])])
    [] value.tag = "Str"    -> None

\* the longest items of the drawn arrays
MaxItems == 2

\* atoms of every variant, with the values at which the conversions branch
ConvAtoms ==
  { BoolAtom(TRUE), BoolAtom(FALSE),
    IntAtom(ZeroWord), IntAtom(WordOf(7)), IntAtom(NegWord(WordOf(1))),
    IntAtom(MinMagnitude),
    FloatAtom(<<"2",".","5">>), FloatAtom(<<"-","1",".","5">>),
    FloatAtom(<<"n","a","n">>), FloatAtom(<<"0",".","0">>),
    FloatAtom(<<"1","e","2">>),
    TextAtom(<<"7">>), TextAtom(<<"-","3">>), TextAtom(True),
    TextAtom(<<"2",".","5">>), TextAtom(<<"x">>) }

RECURSIVE ItemsUpTo(_)
ItemsUpTo(n) ==
  IF n = 0 THEN {<<>>}
  ELSE LET shorter == ItemsUpTo(n - 1) IN
       shorter \cup {Append(is, a) : is \in {u \in shorter : Len(u) = n - 1},
                                    a \in ConvAtoms}

\* values of every variant; PvValue and its fields are public, so an Array
\* is any dims with any items
ConvValues ==
  {Scalar(a) : a \in ConvAtoms}
    \cup {Array(<<WordOf(Len(is))>>, is) : is \in ItemsUpTo(MaxItems)}
    \cup {Str(<<>>), Str(<<"7">>)}

ConvInit ==
  /\ ParserInit
  /\ input \in ConvValues
  /\ cuts = <<>>
  /\ res = NoResult

CallToVecUsize ==
  /\ res = NoResult
  /\ res' = [tag |-> "Done", fn |-> "to_vec_usize", out |-> ToVecUsize(input, checked)]
  /\ UNCHANGED <<parser, input, cuts>>

CallToVecF64 ==
  /\ res = NoResult
  /\ res' = [tag |-> "Done", fn |-> "to_vec_f64", out |-> ToVecF64(input, checked)]
  /\ UNCHANGED <<parser, input, cuts>>

CallToVecBool ==
  /\ res = NoResult
  /\ res' = [tag |-> "Done", fn |-> "to_vec_bool", out |-> ToVecBool(input, checked)]
  /\ UNCHANGED <<parser, input, cuts>>

CallToVecI64 ==
  /\ res = NoResult
  /\ res' = [tag |-> "Done", fn |-> "to_vec_i64", out |-> ToVecI64(input, checked)]
  /\ UNCHANGED <<parser, input, cuts>>

ConvNext == CallToVecUsize \/ CallToVecF64 \/ CallToVecBool \/ CallToVecI64

ConvSpec == ConvInit /\ [][ConvNext]_vars

(***************************************************************************)
(* C10: the typed sequence accessors                                       *)
(***************************************************************************)

\* C10: each of to_vec_usize, to_vec_i64, to_vec_f64, to_vec_bool returns
\* None on Str(_); on Scalar(a) a sequence of exactly one element, the
\* conversion of a; on Array{items,..} a sequence as long as items whose
\* i-th element is the conversion of items[i].  A conversion that fails
\* fatally makes the accessor fail fatally, and nothing else does.
C10_ToVecElementwise ==
  res.tag = "Done" =>
    LET fn  == res.fn
        out == res.out
    IN  /\ fn \in AccessorNames
        /\ input.tag = "Str" => out = None
        /\ input.tag = "Scalar" =>
             LET c == Into(fn, input.atom, checked) IN
             IF c.ok THEN out = Some(<<c.v>>) ELSE out = Panicked
        /\ input.tag = "Array" =>
             IF \A i \in 1..Len(input.items) : Into(fn, input.items[i], checked).ok
             THEN /\ out.tag = "Some"
                  /\ Len(out.v) = Len(input.items)
                  /\ \A i \in 1..Len(input.items) :
                       out.v[i] = Into(fn, input.items[i], checked).v
             ELSE out = Panicked

\* an accessor has returned the conversions of an Array of two items whose
\* conversions differ, so that their order shows
C10_Witness ==
  /\ res.tag = "Done"
  /\ input.tag = "Array" /\ Len(input.items) = 2
  /\ res.out.tag = "Some"
  /\ res.out.v[1] # res.out.v[2]

(***************************************************************************)
(* C11: Int and Bool atoms converted to bool                               *)
(***************************************************************************)

\* C11: for every 64-bit signed integer i, Int(i) converts to bool as
\* i != 0 and the conversion never fails; Bool(b) converts to b.
C11_IntToBoolIsNonZero ==
  (res.tag = "Done" /\ res.fn = "to_vec_bool" /\ input.tag = "Scalar") =>
    /\ input.atom.tag = "Int" =>
         res.out = Some(<<input.atom.i # ZeroWord>>)
    /\ input.atom.tag = "Bool" =>
         res.out = Some(<<input.atom.b>>)

(***************************************************************************)
(* C12: a line without the record marker while nothing is pending          *)
(***************************************************************************)

\* C12: a content line that does not start with "##", read while no
\* continuation is pending, changes nothing: meta, params and the pending
\* state are as before and the call goes on without an error, wherever in
\* the stream the line stands.
C12_StrayLineIsNoOp ==
  [][(pending = NoPending /\ ReadContent) =>
       LET s == LineNow IN
       ~StartsWith(s, <<"#","#">>)
         => /\ meta' = meta
            /\ params' = params
            /\ pending' = NoPending
            /\ ret' = Running]_vars

\* a meta record, then "<a b>" read with nothing pending: the second line
\* left the store as the first one made it
C12_Witness ==
  /\ nread = 2
  /\ last = LineBracket
  /\ DOMAIN meta = {ToAsciiUppercase(Title)}
  /\ params = <<>>
  /\ pending = NoPending
  /\ ret = Running

(***************************************************************************)
(* C13: a pending record takes every content line                          *)
(***************************************************************************)

\* what the pending state machine makes of the atoms `all` collected for the
\* record of key, dims, need: the array stored, or the record still pending
FedAsPayload(key, dims, need, all) ==
  IF IsSmallWord(need) /\ Len(all) >= SmallVal(need)
  THEN /\ params' = With(params, key, Array(dims, SubSeq(all, 1, SmallVal(need))))
       /\ pending' = NoPending
  ELSE /\ params' = params
       /\ pending' = PendingArray(key, dims, need, all)

\* C13: while a continuation is pending (Pending::Dims or Pending::Array)
\* every content line, a line that starts with "##" or "##$" included, is
\* payload of the pending record and is not classified: meta is unchanged,
\* no Scalar is stored, no new dims header becomes pending, and params
\* changes at most under the pending key (a build that checks overflow
\* may panic on the product of the dims instead).  So meta changes, a
\* Scalar is stored and a header becomes pending only on lines read while
\* nothing is pending.
C13_PendingTakesEveryLine ==
  [][ReadContent =>
       LET s == LineNow IN
       /\ pending # NoPending =>
            /\ meta' = meta
            /\ ret' = Running => pending'.tag # "Dims"
            /\ \A k \in DOMAIN params' :
                 \/ k \in DOMAIN params /\ params'[k] = params[k]
                 \/ k = pending.key /\ params'[k].tag \in {"Str", "Array"}
            /\ pending.tag = "Array" =>
                 /\ FedAsPayload(pending.key, pending.dims, pending.need,
                                 pending.items \o AtomsOf(s))
                 /\ ret' = Running
            /\ (pending.tag = "Dims" /\ ~IsBracketed(s) /\ ret' = Running) =>
                 FedAsPayload(pending.key, pending.dims,
                              Product(pending.dims).word, AtomsOf(s))
       /\ (meta' # meta \/ (ret' = Running /\ pending'.tag = "Dims"))
            => pending = NoPending
       /\ (\E k \in DOMAIN params' :
             /\ params'[k].tag = "Scalar"
             /\ k \in DOMAIN params => params[k] # params'[k])
            => pending = NoPending]_vars

\* "##$A=( 2 )", then "##TITLE=x": the second line is the first item of the
\* array and no meta record
C13_Witness ==
  /\ nread = 2
  /\ last = LineMetaUpper
  /\ meta = <<>>
  /\ params = <<>>
  /\ pending = PendingArray(KeyA, <<WordOf(2)>>, WordOf(2),
                            <<TextAtom(Stripped(LineMetaUpper))>>)

(***************************************************************************)
(* C14: blank lines and comments                                           *)
(***************************************************************************)

\* C14: a line that is empty after trimming, or that starts with "$$" after
\* trimming, is skipped in every state: meta, params and the pending state
\* with its key, dims, need and items are unchanged and the call goes on,
\* also between a dims header and its first continuation line and between
\* two chunks of an array.
C14_BlankAndCommentSkipped ==
  [][(nread' = nread + 1) =>
       LET s == Trim(TrimEndMatches(last')) IN
       (s = <<>> \/ StartsWith(s, <<"$","$">>))
         => /\ meta' = meta
            /\ params' = params
            /\ pending' = pending
            /\ ret' = Running]_vars

\* "##$A=( 2 )", "8", then a comment: the array still waits with its one item
C14_Witness ==
  /\ nread = 3
  /\ last = LineComment
  /\ pending = PendingArray(KeyA, <<WordOf(2)>>, WordOf(2), <<IntAtom(WordOf(8))>>)
  /\ params = <<>>
  /\ ret = Running

(***************************************************************************)
(* Streams with an array of three items: the lines are few, so that a      *)
(* header can be followed by three lines of one item each                  *)
(***************************************************************************)

ChunkedLines ==
  { LineComment, LineDims13, LineDims0, LineScalarNo, LineMetaUpper,
    LineBracket, LineThree, LineOne }

ChunkedNext ==
  \/ \E raw \in ChunkedLines : SkipLine(raw) /\ UNCHANGED driver
  \/ \E raw \in ChunkedLines : DecideKind(raw) /\ UNCHANGED driver
  \/ \E raw \in ChunkedLines : CollectItems(raw) /\ UNCHANGED driver
  \/ \E raw \in ChunkedLines : MetaRecord(raw) /\ UNCHANGED driver
  \/ \E raw \in ChunkedLines : DimsHeader(raw) /\ UNCHANGED driver
  \/ \E raw \in ChunkedLines : ScalarRecord(raw) /\ UNCHANGED driver
  \/ \E raw \in ChunkedLines : IgnoreLine(raw) /\ UNCHANGED driver
  \/ EndOfStream /\ UNCHANGED driver
  \/ ReadFails /\ UNCHANGED driver

ChunkedSpec == Init /\ [][ChunkedNext]_vars

(***************************************************************************)
(* C15: the transitions of the pending state                               *)
(***************************************************************************)

\* C15: the pending state changes only on content lines and only along
\* None -> Dims (a dims header), Dims -> None (a bracket string, or the
\* first chunk reaches need), Dims -> Array (the first chunk is short),
\* Array -> Array (still short), Array -> None (the count is reached).
\* Pending::Dims does not outlive a content line, Pending::Array is not
\* entered from None, Pending::Dims is not entered from a pending state,
\* and key, dims and need stay what they were while the record is pending.
C15_PendingTransitions ==
  [][/\ pending' # pending => ReadContent
     /\ (ReadContent /\ ret' = Running) =>
          LET s == LineNow IN
          CASE pending = NoPending ->
                 /\ pending'.tag \in {"None", "Dims"}
                 /\ pending'.tag = "Dims" =>
                      /\ IsParamLine(s)
                      /\ ParseDims(ParamValueOf(s)).some
                      /\ pending'.key = ParamKeyOf(s)
            [] pending.tag = "Dims" ->
                 /\ pending'.tag \in {"None", "Array"}
                 /\ IsBracketed(s) => pending' = NoPending
                 /\ pending'.tag = "Array" =>
                      /\ pending'.key = pending.key
                      /\ pending'.dims = pending.dims
                      /\ pending'.need = Product(pending.dims).word
                      /\ ~LenAtLeast(Len(pending'.items), pending'.need)
            [] pending.tag = "Array" ->
                 /\ pending'.tag \in {"None", "Array"}
                 /\ pending'.tag = "Array" =>
                      /\ pending'.key = pending.key
                      /\ pending'.dims = pending.dims
                      /\ pending'.need = pending.need
                      /\ ~LenAtLeast(Len(pending'.items), pending'.need)
                 /\ pending' = NoPending =>
                      LenAtLeast(Len(pending.items) + Len(SplitWhitespace(s)),
                                 pending.need)]_vars

\* "##$A=(1,3)", then "8" three times: the record went None, Dims, Array,
\* Array, None, and the three items are stored
C15_Witness ==
  /\ nread = 4
  /\ last = LineOne
  /\ pending = NoPending
  /\ KeyA \in DOMAIN params
  /\ params[KeyA] = Array(<<WordOf(1), WordOf(3)>>,
                          <<IntAtom(WordOf(8)), IntAtom(WordOf(8)), IntAtom(WordOf(8))>>)

(***************************************************************************)
(* C16: a dims header stores nothing                                       *)
(***************************************************************************)

\* C16: a dims header ##$K=(dims) read while nothing is pending, and every
\* later line that leaves the record pending, leave params and meta as they
\* were: K keeps its earlier value or stays absent.  While a record is
\* pending params changes in one step only, under the key of the record:
\* the step of the content line that is recognised as the Str or that
\* brings the count to need, after which nothing is pending.
C16_HeaderStoresNothing ==
  [][/\ (pending = NoPending /\ ReadContent) =>
          LET s == LineNow IN
          (IsParamLine(s) /\ ParseDims(ParamValueOf(s)).some)
            => /\ pending' = PendingDims(ParamKeyOf(s), ParseDims(ParamValueOf(s)).dims)
               /\ params' = params
               /\ meta' = meta
     /\ pending' # NoPending => (params' = params /\ meta' = meta)
     /\ (pending # NoPending /\ params' # params) =>
          /\ ReadContent
          /\ pending' = NoPending
          /\ params' = With(params, pending.key, params'[pending.key])
          /\ LET s == LineNow IN
             \/ pending.tag = "Dims" /\ IsBracketed(s)
             \/ LenAtLeast(Len(Collected(pending, s)),
                           IF pending.tag = "Array" THEN pending.need
                           ELSE Product(pending.dims).word)]_vars

\* "##$a=No", then "##$a=(0)": the header is pending and "a" is still the
\* scalar
C16_Witness ==
  /\ nread = 2
  /\ last = LineDims0
  /\ pending = PendingDims(KeyLowerA, <<ZeroWord>>)
  /\ DOMAIN params = {KeyLowerA}
  /\ params[KeyLowerA] = Scalar(BoolAtom(FALSE))

(***************************************************************************)
(* A stream of one parameter record ##$A=<value text>, to see which value  *)
(* texts are taken as a dims header                                        *)
(***************************************************************************)

\* the longest value text drawn from ValueChars
MaxValueLen == 4

ValueChars == {"(", ")", ",", "1", " ", "a"}

RECURSIVE ValuesUpTo(_)
ValuesUpTo(n) ==
  IF n = 0 THEN {<<>>}
  ELSE LET shorter == ValuesUpTo(n - 1) IN
       shorter \cup {Append(t, c) : t \in {u \in shorter : Len(u) = n - 1},
                                   c \in ValueChars}

\* longer value texts: two dimensions, an empty item between commas, a
\* negative item, an item with a fraction, an item beyond usize
LongValues ==
  { <<"(", " ", "1", "0", " ", ",", " ", "2", " ", ")">>,
    <<"(", "1", ",", ",", "2", ")">>,
    <<"(", "-", "1", ",", "2", ")">>,
    <<"(", "1", ".", "5", ")">>,
    <<"(", "1", "0">> \o I64MaxPlusOne \o <<")">>,
    <<"(", "1", " ", "2", ")">> }

ValueTexts == ValuesUpTo(MaxValueLen) \cup LongValues

ValueInit ==
  /\ ParserInit
  /\ input \in ValueTexts
  /\ cuts = <<>>
  /\ res = NoResult

\* the record line "##$A=" input is read
FeedValue ==
  /\ nread = 0
  /\ ReadLine(ParamLine(KeyA, input \o <<"\n">>))
  /\ UNCHANGED driver

ValueEnd ==
  /\ nread = 1
  /\ EndOfStream
  /\ UNCHANGED driver

ValueNext == FeedValue \/ ValueEnd

ValueSpec == ValueInit /\ [][ValueNext]_vars

(***************************************************************************)
(* C17: which value texts are dims headers                                 *)
(***************************************************************************)

\* v is "(" items ")" where the items between the commas, blanks around
\* them aside, are numerals of a usize, every one with at least one digit,
\* and there is at least one item
IsDimsList(v) ==
  /\ Len(v) >= 2 /\ v[1] = "(" /\ v[Len(v)] = ")"
  /\ LET items == SplitChar(SubSeq(v, 2, Len(v) - 1), ",") IN
     \A i \in 1..Len(items) :
       LET t == Trim(items[i]) IN
       t # <<>> /\ AllDigits(t) /\ ParseUsize(t).ok

\* C17: the value text of a parameter record is a dims header if and only if
\* it is wrapped in parentheses and its interior is a non-empty
\* comma-separated list of non-negative integers, blanks around the items
\* aside; every other value text, "( )", a list with a negative or
\* non-integer item and a list with an empty item between commas included,
\* is stored at once as Scalar(parse_atom(text)) and nothing is pending.
C17_DimsIffIntegerList ==
  (nread = 1 /\ ret = Running) =>
    LET v == Trim(input) IN
    IF IsDimsList(v)
    THEN pending.tag = "Dims" /\ pending.key = KeyA /\ params = <<>>
    ELSE /\ pending = NoPending
         /\ DOMAIN params = {KeyA}
         /\ params[KeyA] = Scalar(ParseAtom(v))

(***************************************************************************)
(* C18: progress by count                                                  *)
(***************************************************************************)

\* the number of content lines among the chunks fed so far: a chunk whose
\* first token starts with "$$" makes a comment line
ContentLinesFed ==
  Cardinality({k \in 1..Len(cuts) :
                 ~StartsWith(ChunkTokens(input.toks, cuts, k)[1], <<"$","$">>)})

\* C18: in Pending::Array, 1 <= items.len() < need; every content line
\* read in Pending::Array adds at least one item; so a record with need = n
\* is stored, with nothing pending, after at most max(1, n) content lines
\* after its header; and every step of the call reads exactly one line or
\* is the return at the end of the stream, after which there is no step.
C18_ProgressByCount ==
  /\ [](pending.tag = "Array" =>
          /\ IsSmallWord(pending.need)
          /\ 1 <= Len(pending.items)
          /\ Len(pending.items) < SmallVal(pending.need))
  /\ []((nread >= 1 /\ pending # NoPending) =>
          ContentLinesFed < (IF input.need >= 1 THEN input.need ELSE 1))
  /\ []((nread >= 1 /\ pending = NoPending) => KeyA \in DOMAIN params)
  /\ [][(pending.tag = "Array" /\ ReadContent) =>
          \/ /\ pending'.tag = "Array"
             /\ Len(pending'.items) >= Len(pending.items) + 1
          \/ /\ pending' = NoPending
             /\ Len(params'[pending.key].items) >= Len(pending.items) + 1]_vars
  /\ [][/\ ret = Running
        /\ \/ nread' = nread + 1 /\ ret' = Running
           \/ nread' = nread /\ ret' # Running]_vars

\* a record of three items that came on three lines of one item each: it
\* is stored with the third line, not before
C18_Witness ==
  /\ ret = Running
  /\ input.need = 3
  /\ cuts = <<1, 1, 1>>
  /\ ContentLinesFed = 3
  /\ pending = NoPending
  /\ KeyA \in DOMAIN params /\ Len(params[KeyA].items) = 3

(***************************************************************************)
(* C19: arrays of no elements                                              *)
(***************************************************************************)

\* some dimension is 0, so the product of the dims is 0
HasZeroDim(dims) == \E i \in 1..Len(dims) : dims[i] = ZeroWord

\* C19: a dims header with a dimension 0 completes nothing on its own line:
\* the record is pending after it.  The next content line, unless it reads
\* <...>, is consumed whole and its tokens are dropped: Array{dims, []} is
\* stored under the key, nothing else changes and nothing is pending, also
\* when that line is itself a record line.  When the stream ends before a
\* content line comes, the call returns the error of the incomplete record.
C19_ZeroElementArray ==
  /\ [][(pending = NoPending /\ ReadContent) =>
          LET s == LineNow IN
          (/\ IsParamLine(s)
           /\ ParseDims(ParamValueOf(s)).some
           /\ HasZeroDim(ParseDims(ParamValueOf(s)).dims))
            => /\ pending' = PendingDims(ParamKeyOf(s), ParseDims(ParamValueOf(s)).dims)
               /\ params' = params
               /\ meta' = meta
               /\ ret' = Running]_vars
  /\ [][(pending.tag = "Dims" /\ HasZeroDim(pending.dims)) =>
          /\ (ReadContent /\ ~IsBracketed(LineNow)) =>
               /\ params' = With(params, pending.key, Array(pending.dims, <<>>))
               /\ pending' = NoPending
               /\ meta' = meta
               /\ ret' = Running
          /\ (nread' = nread /\ ret' # ErrIo) => ret' = ErrParse(pending)]_vars

\* "##$a=(0)", then "##$a=No": the second line is swallowed, "a" is the
\* array of no items and no scalar
C19_Witness ==
  /\ nread = 2
  /\ last = LineScalarNo
  /\ pending = NoPending
  /\ DOMAIN params = {KeyLowerA}
  /\ params[KeyLowerA] = Array(<<ZeroWord>>, <<>>)
  /\ ret = Running

=============================================================================
